---- MODULE Spec2Model ----
(***************************************************************************)
(* Evidence of validator equivocation (types/evidence.go) and the mock     *)
(* signing authority (types/priv_validator.go).                            *)
(*                                                                         *)
(* Three state machines share the module's variables:                      *)
(*   SpecVerify  a DuplicateVoteEvidence handed to Verify, whose error a   *)
(*               caller may wrap with NewEvidenceInvalidErr;               *)
(*   SpecPV      a MockPV answering SignVote requests;                     *)
(*   SpecList    an EvidenceList that is appended to, hashed and searched. *)
(***************************************************************************)
EXTENDS Integers, Sequences, FiniteSets, TLC

VARIABLES
    ev,         \* the Evidence under verification
    verifyOut,  \* the last Verify call: its arguments and what came back
    wrapped,    \* the last value built by NewEvidenceInvalidErr
    privKey,    \* MockPV.privKey
    prevReply,  \* the SignVoteReply returned before the last one
    lastReply,  \* the SignVoteReply returned by the last SignVote
    signErr,    \* the error returned by the last SignVote
    evl,        \* the EvidenceList
    listOut     \* the last call on the list: operation, argument, result

vars == <<ev, verifyOut, wrapped, privKey, prevReply, lastReply, signErr,
          evl, listOut>>

verifyVars == <<ev, verifyOut, wrapped>>
pvVars == <<privKey, prevReply, lastReply, signErr>>
listVars == <<evl, listOut>>

---------------------------------------------------------------------------
(* Bounds of the model *)

MaxHeight == 2
MaxRound == 1
MaxIndex == 1
MaxLen == 3

Heights == 1..MaxHeight
Rounds == 0..MaxRound
Indices == 0..MaxIndex
VoteTypes == {"prevote", "precommit"}
BlockIDs == {"X", "Y"}
ChainIDs == {"chain-A", "chain-B"}
\* An ed25519 key pair is named by one string: the private key k has the
\* public key k.
Keys == {"k1", "k2"}

---------------------------------------------------------------------------
(* Values *)

\* A nil *SignVoteReply.
NilReply == [nilptr |-> "SignVoteReply"]
\* A nil error.
NilErr == [nilerr |-> TRUE]
\* The runtime panic of a nil pointer dereference or a failed type
\* assertion: the call does not return.
Panic == [panic |-> TRUE]
\* No call made yet.
NoCall == [called |-> FALSE]

\* crypto.PubKey.Address(): the address derived from a public key.
Address(pubKey) == [addrOf |-> pubKey]

Addresses == {Address(k) : k \in Keys}

Votes ==
    [ChainID : ChainIDs, Height : Heights, Round : Rounds, Type : VoteTypes,
     ValidatorAddress : Addresses, ValidatorIndex : Indices,
     BlockID : BlockIDs]

\* Vote.SignBytes(): the canonical encoding a validator signs, bound to the
\* chain and to the vote's height, round, type and block.
SignBytes(vote) ==
    [chain_id |-> vote.ChainID, type |-> vote.Type, height |-> vote.Height,
     round |-> vote.Round, block_id |-> vote.BlockID]

\* crypto.PrivKey.Sign(msg): deterministic, bound to the key and the message.
Sign(priv, msg) == [key |-> priv, msg |-> msg]

\* A signature with one byte changed: it verifies under no key.
Corrupted(sig) == [key |-> sig.key, msg |-> [corrupted |-> sig.msg]]

\* crypto.PubKey.VerifyBytes(msg, sig).
VerifyBytes(pubKey, msg, sig) == sig.key = pubKey /\ sig.msg = msg

\* BlockID.Equals.
BlockIDEquals(a, b) == a = b

\* fmt.Errorf: an untyped error that holds a message only.
Errorf(msg) == [type |-> "errorString", msg |-> msg]

---------------------------------------------------------------------------
(* ErrEvidenceInvalid *)

\* A constructor that keeps the cause and loses the evidence.
NewEvidenceInvalidErrDropsEvidence(e, err) ==
    [type |-> "ErrEvidenceInvalid", Evidence |-> NilErr, ErrorValue |-> err]

\* NewEvidenceInvalidErr(ev, err) = &ErrEvidenceInvalid{ev, err}.
NewEvidenceInvalidErr(e, err) ==
    [type |-> "ErrEvidenceInvalid", Evidence |-> e, ErrorValue |-> err]

---------------------------------------------------------------------------
(* DuplicateVoteEvidence *)

\* A *DuplicateVoteEvidence: ptr is the identity of the allocated struct,
\* the other fields are its content.
NewDuplicateVoteEvidence(ptr, pubKey, voteA, voteB) ==
    [variant |-> "DuplicateVoteEvidence", ptr |-> ptr,
     PubKey |-> pubKey, VoteA |-> voteA, VoteB |-> voteB]

\* DuplicateVoteEvidence.Address(): derived from the PubKey field.
DveAddress(d) == Address(d.PubKey)

\* aminoHasher(dve).Hash(): the digest of the canonical encoding of the
\* struct's content (PubKey and both replies) under its registered name.
AminoHash(d) ==
    [amino |-> "tendermint/DuplicateVoteEvidence",
     PubKey |-> d.PubKey, VoteA |-> d.VoteA, VoteB |-> d.VoteB]

\* DuplicateVoteEvidence.Hash().
DveHash(d) == AminoHash(d)

\* A Verify that checks the signatures before the address of the key.
DveVerifySignaturesFirst(d, chainID, pubKey) ==
    IF d.VoteA = NilReply \/ d.VoteB = NilReply THEN Panic
    ELSE LET a == d.VoteA.Vote
             b == d.VoteB.Vote
         IN  IF a.Height # b.Height \/ a.Round # b.Round \/ a.Type # b.Type
             THEN Errorf("H/R/S does not match")
             ELSE IF a.ValidatorAddress # b.ValidatorAddress
             THEN Errorf("Validator addresses do not match")
             ELSE IF a.ValidatorIndex # b.ValidatorIndex
             THEN Errorf("Validator indices do not match")
             ELSE IF BlockIDEquals(a.BlockID, b.BlockID)
             THEN Errorf("BlockIDs are the same - not a real duplicate vote")
             ELSE IF ~VerifyBytes(pubKey, SignBytes(a), d.VoteA.Signature)
             THEN Errorf("Error verifying VoteA")
             ELSE IF ~VerifyBytes(pubKey, SignBytes(b), d.VoteB.Signature)
             THEN Errorf("Error verifying VoteB")
             ELSE IF Address(pubKey) # a.ValidatorAddress
             THEN Errorf("FAILED SANITY CHECK - address doesn't match pubkey")
             ELSE NilErr

\* DuplicateVoteEvidence.Verify(chainID, pubKey).  The votes are read through
\* the pointers VoteA and VoteB, so a nil pointer panics at the first read.
\* chainID is not read.
DveVerify(d, chainID, pubKey) ==
    IF d.VoteA = NilReply \/ d.VoteB = NilReply THEN Panic
    ELSE LET a == d.VoteA.Vote
             b == d.VoteB.Vote
         IN  IF a.Height # b.Height \/ a.Round # b.Round \/ a.Type # b.Type
             THEN Errorf("H/R/S does not match")
             ELSE IF a.ValidatorAddress # b.ValidatorAddress
             THEN Errorf("Validator addresses do not match")
             ELSE IF a.ValidatorIndex # b.ValidatorIndex
             THEN Errorf("Validator indices do not match")
             ELSE IF BlockIDEquals(a.BlockID, b.BlockID)
             THEN Errorf("BlockIDs are the same - not a real duplicate vote")
             ELSE IF Address(pubKey) # a.ValidatorAddress
             THEN Errorf("FAILED SANITY CHECK - address doesn't match pubkey")
             ELSE IF ~VerifyBytes(pubKey, SignBytes(a), d.VoteA.Signature)
             THEN Errorf("Error verifying VoteA")
             ELSE IF ~VerifyBytes(pubKey, SignBytes(b), d.VoteB.Signature)
             THEN Errorf("Error verifying VoteB")
             ELSE NilErr

\* The result of a bool-returning method that returned.
Bool(b) == [bool |-> b]

\* An Equal that compares the two pointers instead of the two hashes.
DveEqualByReference(d, e) ==
    IF e.variant # "DuplicateVoteEvidence" THEN Bool(FALSE)
    ELSE Bool(d.ptr = e.ptr)

\* DuplicateVoteEvidence.Equal(ev).
DveEqual(d, e) ==
    IF e.variant # "DuplicateVoteEvidence" THEN Bool(FALSE)
    ELSE Bool(AminoHash(d) = AminoHash(e))

---------------------------------------------------------------------------
(* MockGoodEvidence, MockBadEvidence *)

\* NewMockGoodEvidence(height, idx, address): idx is dropped.
NewMockGoodEvidence(height, idx, address) ==
    [variant |-> "MockGoodEvidence", Height_ |-> height, Address_ |-> address]

\* MockBadEvidence{MockGoodEvidence{height, address}}.
NewMockBadEvidence(height, address) ==
    [variant |-> "MockBadEvidence", Height_ |-> height, Address_ |-> address]

\* MockGoodEvidence.Hash(): fmt.Sprintf("%d-%x", Height_, Address_).
\* MockBadEvidence embeds MockGoodEvidence and has no Hash of its own.
MockGoodHash(e) == [fmt |-> "%d-%x", d |-> e.Height_, x |-> e.Address_]

\* MockGoodEvidence.Verify.
MockGoodVerify(e, chainID, pubKey) == NilErr

\* MockBadEvidence.Verify.
MockBadVerify(e, chainID, pubKey) == Errorf("MockBadEvidence")

\* MockGoodEvidence.Equal(ev): the type assertion ev.(MockGoodEvidence) has
\* no ok form, so another dynamic type panics.
MockGoodEqual(e, e2) ==
    IF e2.variant # "MockGoodEvidence" THEN Panic
    ELSE Bool(e.Height_ = e2.Height_ /\ e.Address_ = e2.Address_)

\* MockBadEvidence.Equal(ev): likewise with ev.(MockBadEvidence).
MockBadEqual(e, e2) ==
    IF e2.variant # "MockBadEvidence" THEN Panic
    ELSE Bool(e.Height_ = e2.Height_ /\ e.Address_ = e2.Address_)

---------------------------------------------------------------------------
(* Evidence: dispatch on the dynamic type *)

\* Evidence.Hash().
Hash(e) ==
    IF e.variant = "DuplicateVoteEvidence" THEN DveHash(e) ELSE MockGoodHash(e)

\* Evidence.Verify(chainID, pubKey).
Verify(e, chainID, pubKey) ==
    CASE e.variant = "DuplicateVoteEvidence" -> DveVerify(e, chainID, pubKey)
      [] e.variant = "MockGoodEvidence" -> MockGoodVerify(e, chainID, pubKey)
      [] e.variant = "MockBadEvidence" -> MockBadVerify(e, chainID, pubKey)

\* Evidence.Equal(ev).
Equal(e, e2) ==
    CASE e.variant = "DuplicateVoteEvidence" -> DveEqual(e, e2)
      [] e.variant = "MockGoodEvidence" -> MockGoodEqual(e, e2)
      [] e.variant = "MockBadEvidence" -> MockBadEqual(e, e2)

---------------------------------------------------------------------------
(* EvidenceList *)

\* A nil []byte.
NilHash == [nilbytes |-> TRUE]

\* merkle.SimpleHashFromTwoHashes(left, right): the digest of the two
\* length-prefixed child hashes, in that order.
SimpleHashFromTwoHashes(left, right) == [left |-> left, right |-> right]

\* A Hash that splits at len/2 instead of (len+1)/2.
RECURSIVE EvidenceListHashSplitLow(_)
EvidenceListHashSplitLow(l) ==
    IF Len(l) = 0 THEN NilHash
    ELSE IF Len(l) = 1 THEN Hash(l[1])
    ELSE LET k == Len(l) \div 2
             left == EvidenceListHashSplitLow(SubSeq(l, 1, k))
             right == EvidenceListHashSplitLow(SubSeq(l, k + 1, Len(l)))
         IN  SimpleHashFromTwoHashes(left, right)

\* EvidenceList.Hash().
RECURSIVE EvidenceListHash(_)
EvidenceListHash(l) ==
    IF Len(l) = 0 THEN NilHash
    ELSE IF Len(l) = 1 THEN Hash(l[1])
    ELSE LET k == (Len(l) + 1) \div 2
             left == EvidenceListHash(SubSeq(l, 1, k))
             right == EvidenceListHash(SubSeq(l, k + 1, Len(l)))
         IN  SimpleHashFromTwoHashes(left, right)

\* EvidenceList.Has(evidence): the scan from element i on.  A panic of Equal
\* ends the scan.
RECURSIVE HasFrom(_, _, _)
HasFrom(l, evidence, i) ==
    IF i > Len(l) THEN Bool(FALSE)
    ELSE LET r == Equal(l[i], evidence)
         IN  IF r = Panic THEN Panic
             ELSE IF r = Bool(TRUE) THEN Bool(TRUE)
             ELSE HasFrom(l, evidence, i + 1)

Has(l, evidence) == HasFrom(l, evidence, 1)

---------------------------------------------------------------------------
(* MockPV *)

\* MockPV.GetPubKey().
GetPubKey(priv) == priv

\* MockPV.GetAddress().
GetAddress(priv) == Address(GetPubKey(priv))

\* MockPV.SignVote(vote): the reply and the error it returns.  Sign of an
\* ed25519 key returns no error.
MockSignVote(priv, vote) ==
    [reply |-> [Vote |-> vote, Signature |-> Sign(priv, SignBytes(vote))],
     err |-> NilErr]

---------------------------------------------------------------------------
(* Idle values of the variables a specification does not use *)

PVIdle ==
    /\ privKey = "k1"
    /\ prevReply = NilReply
    /\ lastReply = NilReply
    /\ signErr = NilErr

ListIdle ==
    /\ evl = <<>>
    /\ listOut = NoCall

VerifyIdle ==
    /\ ev = NewDuplicateVoteEvidence("p1", "k1", NilReply, NilReply)
    /\ verifyOut = NoCall
    /\ wrapped = NoCall

---------------------------------------------------------------------------
(* SpecVerify: evidence from any packager, verified, its error wrapped *)

\* The signatures a packager can attach to a vote: the vote as signed by
\* some validator, or the signature of the accused with a byte changed.
SignaturesFor(v) ==
    {Sign(k, SignBytes(v)) : k \in Keys}
    \cup {Corrupted(Sign(v.ValidatorAddress.addrOf, SignBytes(v)))}

RepliesFor(vs) ==
    UNION {{[Vote |-> v, Signature |-> s] : s \in SignaturesFor(v)} : v \in vs}

\* Verify compares the two votes field by field, so VoteA is drawn from the
\* votes of one consensus coordinate and VoteB from all votes.
BaseVotes ==
    {v \in Votes : /\ v.Height = 1 /\ v.Round = 0 /\ v.Type = "prevote"
                   /\ v.ValidatorIndex = 0 /\ v.BlockID = "X"}

MockInputs ==
    {NewMockGoodEvidence(h, 0, a) : h \in Heights, a \in Addresses}
    \cup {NewMockBadEvidence(h, a) : h \in Heights, a \in Addresses}

EvidenceInputs ==
    {NewDuplicateVoteEvidence("p1", k, a, b) :
        k \in Keys,
        a \in RepliesFor(BaseVotes) \cup {NilReply},
        b \in RepliesFor(Votes) \cup {NilReply}}
    \cup MockInputs

InitVerify ==
    /\ ev \in EvidenceInputs
    /\ verifyOut = NoCall
    /\ wrapped = NoCall
    /\ PVIdle
    /\ ListIdle

\* A caller runs ev.Verify(chainID, pubKey).
DoVerify(chainID, pubKey) ==
    /\ verifyOut' = [called |-> TRUE, chainID |-> chainID, pubKey |-> pubKey,
                     err |-> Verify(ev, chainID, pubKey)]
    /\ wrapped' = NoCall
    /\ UNCHANGED <<ev, pvVars, listVars>>

\* The caller wraps the error Verify returned: NewEvidenceInvalidErr(ev, err).
DoWrap ==
    /\ verifyOut # NoCall
    /\ verifyOut.err \notin {NilErr, Panic}
    /\ wrapped' = [called |-> TRUE,
                   err |-> NewEvidenceInvalidErr(ev, verifyOut.err)]
    /\ UNCHANGED <<ev, verifyOut, pvVars, listVars>>

NextVerify ==
    \/ \E c \in ChainIDs, k \in Keys : DoVerify(c, k)
    \/ DoWrap

SpecVerify == InitVerify /\ [][NextVerify]_vars

---------------------------------------------------------------------------
(* SpecPV: a MockPV signs whatever vote it is asked to sign *)

\* The votes put to the MockPV, of one chain and one round.
PVVotes == {v \in Votes : v.ChainID = "chain-A" /\ v.Round = 0}

\* NewMockPV(): a fresh key, nothing signed.
InitPV ==
    /\ privKey \in Keys
    /\ prevReply = NilReply
    /\ lastReply = NilReply
    /\ signErr = NilErr
    /\ VerifyIdle
    /\ ListIdle

\* A SignVote with double-sign protection: it refuses a vote that conflicts
\* with the last one it signed.
DoSignVoteOnce(vote) ==
    LET conflict == /\ lastReply # NilReply
                    /\ lastReply.Vote.Height = vote.Height
                    /\ lastReply.Vote.Round = vote.Round
                    /\ lastReply.Vote.Type = vote.Type
                    /\ lastReply.Vote.BlockID # vote.BlockID
        r == MockSignVote(privKey, vote)
    IN  IF conflict
        THEN /\ signErr' = Errorf("conflicting vote at the same height, round and type")
             /\ UNCHANGED <<privKey, prevReply, lastReply, verifyVars, listVars>>
        ELSE /\ signErr' = r.err
             /\ lastReply' = r.reply
             /\ prevReply' = lastReply
             /\ UNCHANGED <<privKey, verifyVars, listVars>>

\* pv.SignVote(&vote): the MockPV keeps no record of what it signed; the
\* caller keeps the last two replies.
DoSignVote(vote) ==
    LET r == MockSignVote(privKey, vote)
    IN  /\ signErr' = r.err
        /\ lastReply' = r.reply
        /\ prevReply' = lastReply
        /\ UNCHANGED <<privKey, verifyVars, listVars>>

NextPV == \E v \in PVVotes : DoSignVote(v)

SpecPV == InitPV /\ [][NextPV]_vars

---------------------------------------------------------------------------
(* SpecList: an EvidenceList appended to, hashed and searched *)

\* Two validators caught signing block X and block Y at one coordinate.
Equivocation(k) ==
    LET v(b) == [ChainID |-> "chain-A", Height |-> 1, Round |-> 0,
                 Type |-> "prevote", ValidatorAddress |-> Address(k),
                 ValidatorIndex |-> 0, BlockID |-> b]
    IN  <<MockSignVote(k, v("X")).reply, MockSignVote(k, v("Y")).reply>>

\* Three allocated DuplicateVoteEvidence: p1 and p2 hold the same content.
DveItems ==
    {NewDuplicateVoteEvidence("p1", "k1", Equivocation("k1")[1], Equivocation("k1")[2]),
     NewDuplicateVoteEvidence("p2", "k1", Equivocation("k1")[1], Equivocation("k1")[2]),
     NewDuplicateVoteEvidence("p3", "k2", Equivocation("k2")[1], Equivocation("k2")[2])}

MockItems ==
    {NewMockGoodEvidence(1, 0, Address("k1")),
     NewMockGoodEvidence(2, 0, Address("k1")),
     NewMockGoodEvidence(1, 1, Address("k2")),
     NewMockBadEvidence(1, Address("k1"))}

ListItems == DveItems \cup MockItems

InitList ==
    /\ evl = <<>>
    /\ listOut = NoCall
    /\ VerifyIdle
    /\ PVIdle

\* evl = append(evl, item).
DoAppend(item) ==
    /\ Len(evl) < MaxLen
    /\ evl' = Append(evl, item)
    /\ listOut' = NoCall
    /\ UNCHANGED <<verifyVars, pvVars>>

\* evl.Hash().
DoHash ==
    /\ listOut' = [called |-> TRUE, op |-> "Hash", res |-> EvidenceListHash(evl)]
    /\ UNCHANGED <<evl, verifyVars, pvVars>>

\* evl.Has(x).
DoHas(x) ==
    /\ listOut' = [called |-> TRUE, op |-> "Has", arg |-> x, res |-> Has(evl, x)]
    /\ UNCHANGED <<evl, verifyVars, pvVars>>

\* evl[i].Equal(x).
DoEqual(i, x) ==
    /\ i \in 1..Len(evl)
    /\ listOut' = [called |-> TRUE, op |-> "Equal", recv |-> evl[i], arg |-> x,
                   res |-> Equal(evl[i], x)]
    /\ UNCHANGED <<evl, verifyVars, pvVars>>

NextList ==
    \/ \E item \in ListItems : DoAppend(item)
    \/ DoHash
    \/ \E x \in ListItems : DoHas(x)
    \/ \E i \in 1..MaxLen, x \in ListItems : DoEqual(i, x)

SpecList == InitList /\ [][NextList]_vars

---------------------------------------------------------------------------
(* Properties of Verify *)

IsDve(e) == e.variant = "DuplicateVoteEvidence"

\* A DuplicateVoteEvidence with both replies present.
HasBothVotes(e) == IsDve(e) /\ e.VoteA # NilReply /\ e.VoteB # NilReply

\* The seven steps of the check, each TRUE when it fails.
StepFails(d, pubKey) ==
    LET a == d.VoteA.Vote
        b == d.VoteB.Vote
    IN  <<~(a.Height = b.Height /\ a.Round = b.Round /\ a.Type = b.Type),
          a.ValidatorAddress # b.ValidatorAddress,
          a.ValidatorIndex # b.ValidatorIndex,
          a.BlockID = b.BlockID,
          Address(pubKey) # a.ValidatorAddress,
          ~VerifyBytes(pubKey, SignBytes(a), d.VoteA.Signature),
          ~VerifyBytes(pubKey, SignBytes(b), d.VoteB.Signature)>>

\* The error of each step.
StepError ==
    <<Errorf("H/R/S does not match"),
      Errorf("Validator addresses do not match"),
      Errorf("Validator indices do not match"),
      Errorf("BlockIDs are the same - not a real duplicate vote"),
      Errorf("FAILED SANITY CHECK - address doesn't match pubkey"),
      Errorf("Error verifying VoteA"),
      Errorf("Error verifying VoteB")>>

\* The earliest failing step, 0 when none fails.
FirstFailure(f) ==
    IF \E i \in 1..7 : f[i]
    THEN CHOOSE i \in 1..7 : f[i] /\ \A j \in 1..(i - 1) : ~f[j]
    ELSE 0

\* C1: on an evidence holding two votes, Verify returns the outcome of the
\* ordered, fail-fast check: success if and only if none of the seven steps
\* fails, else the error of the earliest failing step, and the seven errors
\* are pairwise distinct.
C1_OrderedFailFast ==
    (verifyOut.called /\ HasBothVotes(ev)) =>
        LET i == FirstFailure(StepFails(ev, verifyOut.pubKey))
        IN  /\ (i = 0) <=> (verifyOut.err = NilErr)
            /\ i > 0 => verifyOut.err = StepError[i]
            /\ \A j, k \in 1..7 : j # k => StepError[j] # StepError[k]
            /\ \A j \in 1..7 : StepError[j] # NilErr

\* Steps 5, 6 and 7 all fail and the error is the one of step 5.
C1_Witness ==
    /\ verifyOut.called
    /\ HasBothVotes(ev)
    /\ LET f == StepFails(ev, verifyOut.pubKey)
       IN  /\ ~f[1] /\ ~f[2] /\ ~f[3] /\ ~f[4]
           /\ f[5] /\ f[6] /\ f[7]
    /\ verifyOut.err = StepError[5]

\* A reply as MockPV.SignVote returns it, for some key.
SignedBySignVote(reply) ==
    \E k \in Keys : reply = MockSignVote(k, reply.Vote).reply

\* C2: when both votes were signed by SignVote for chain c and Verify(c,
\* pubKey) succeeds, Verify(c2, pubKey) fails for every other chain c2.
C2_BoundToChainID ==
    (/\ verifyOut.called
     /\ HasBothVotes(ev)
     /\ SignedBySignVote(ev.VoteA) /\ SignedBySignVote(ev.VoteB)
     /\ ev.VoteA.Vote.ChainID = verifyOut.chainID
     /\ ev.VoteB.Vote.ChainID = verifyOut.chainID
     /\ verifyOut.err = NilErr)
    => \A c2 \in ChainIDs \ {verifyOut.chainID} :
          Verify(ev, c2, verifyOut.pubKey) # NilErr

\* C3: when Verify succeeds on a DuplicateVoteEvidence, the address of the
\* evidence's own PubKey field (what Address() reports) is the validator
\* address of both votes and both signatures verify under that field.
C3_OwnPubKeyEnforced ==
    (verifyOut.called /\ HasBothVotes(ev) /\ verifyOut.err = NilErr) =>
        /\ DveAddress(ev) = ev.VoteA.Vote.ValidatorAddress
        /\ DveAddress(ev) = ev.VoteB.Vote.ValidatorAddress
        /\ VerifyBytes(ev.PubKey, SignBytes(ev.VoteA.Vote), ev.VoteA.Signature)
        /\ VerifyBytes(ev.PubKey, SignBytes(ev.VoteB.Vote), ev.VoteB.Signature)

\* A Verify call that returned an error.
VerifyFailed == verifyOut.called /\ verifyOut.err \notin {NilErr, Panic}

\* C8: every error Verify returns is the typed evidence-plus-cause error,
\* carrying the evidence that failed.
C8_VerifyReturnsTypedError ==
    VerifyFailed =>
        /\ verifyOut.err.type = "ErrEvidenceInvalid"
        /\ verifyOut.err.Evidence = ev

\* C8 as amended: every error Verify returns is an untyped error holding
\* the cause only; the typed error is what NewEvidenceInvalidErr builds from
\* it, and that value carries the evidence and the cause unchanged.
C8_CallerWrapsBareCause ==
    /\ VerifyFailed =>
          /\ verifyOut.err.type = "errorString"
          /\ DOMAIN verifyOut.err = {"type", "msg"}
    /\ wrapped.called =>
          /\ VerifyFailed
          /\ wrapped.err.type = "ErrEvidenceInvalid"
          /\ wrapped.err.Evidence = ev
          /\ wrapped.err.ErrorValue = verifyOut.err

\* The error of a failed Verify of a DuplicateVoteEvidence has been wrapped.
C8_Witness ==
    /\ wrapped.called
    /\ HasBothVotes(ev)
    /\ verifyOut.err = StepError[6]

\* C10: Verify returns, with success or an error, on every evidence the
\* data model admits, a missing vote included.
C10_VerifyNeverAborts ==
    verifyOut.called => verifyOut.err # Panic

---------------------------------------------------------------------------
(* Properties of the MockPV *)

SameHRS(v, w) == v.Height = w.Height /\ v.Round = w.Round /\ v.Type = w.Type

\* The last two replies are votes of this MockPV at one height, round and
\* type, with one validator index, for two blocks.
DoubleSigned ==
    /\ prevReply # NilReply
    /\ lastReply # NilReply
    /\ SameHRS(prevReply.Vote, lastReply.Vote)
    /\ prevReply.Vote.BlockID # lastReply.Vote.BlockID
    /\ prevReply.Vote.ValidatorAddress = GetAddress(privKey)
    /\ lastReply.Vote.ValidatorAddress = GetAddress(privKey)
    /\ prevReply.Vote.ValidatorIndex = lastReply.Vote.ValidatorIndex

\* C9: SignVote never refuses, whatever was signed before, and the evidence
\* made of two conflicting replies of one MockPV verifies under its key.
C9_MockSignsUnconditionally ==
    /\ signErr = NilErr
    /\ lastReply # NilReply =>
          VerifyBytes(GetPubKey(privKey), SignBytes(lastReply.Vote),
                      lastReply.Signature)
    /\ DoubleSigned =>
          \A c \in ChainIDs :
              Verify(NewDuplicateVoteEvidence("p1", GetPubKey(privKey),
                                              prevReply, lastReply),
                     c, GetPubKey(privKey)) = NilErr

C9_Witness == DoubleSigned /\ signErr = NilErr

---------------------------------------------------------------------------
(* Properties of the EvidenceList *)

\* The Merkle reduction over the elements lo..hi of l, by index.
RECURSIVE MerkleRange(_, _, _)
MerkleRange(l, lo, hi) ==
    IF hi < lo THEN NilHash
    ELSE IF hi = lo THEN Hash(l[lo])
    ELSE LET n == hi - lo + 1
             mid == lo + ((n + 1) \div 2) - 1
         IN  SimpleHashFromTwoHashes(MerkleRange(l, lo, mid),
                                     MerkleRange(l, mid + 1, hi))

\* Whether a hash was combined, at any depth, from the hash of an empty list.
RECURSIVE CombinesEmpty(_)
CombinesEmpty(h) ==
    /\ "left" \in DOMAIN h
    /\ \/ h.left = NilHash
       \/ h.right = NilHash
       \/ CombinesEmpty(h.left)
       \/ CombinesEmpty(h.right)

ListCalled(op) == listOut.called /\ listOut.op = op

\* C4: Hash is the binary Merkle reduction: no bytes for the empty list, the
\* element's hash for one element, else the combination of the hashes of the
\* first (n+1)/2 elements and of the rest, never combining an empty half.
C4_MerkleReduction ==
    ListCalled("Hash") =>
        /\ listOut.res = MerkleRange(evl, 1, Len(evl))
        /\ Len(evl) = 0 => listOut.res = NilHash
        /\ Len(evl) = 1 => listOut.res = Hash(evl[1])
        /\ ~CombinesEmpty(listOut.res)

C4_Witness ==
    /\ ListCalled("Hash")
    /\ Len(evl) = 3
    /\ listOut.res =
          SimpleHashFromTwoHashes(
              SimpleHashFromTwoHashes(Hash(evl[1]), Hash(evl[2])), Hash(evl[3]))

\* Two evidence values of one variant with the same fields.
SameContent(a, b) ==
    /\ a.variant = b.variant
    /\ IF IsDve(a)
       THEN a.PubKey = b.PubKey /\ a.VoteA = b.VoteA /\ a.VoteB = b.VoteB
       ELSE a.Height_ = b.Height_ /\ a.Address_ = b.Address_

\* C5: the hash of a list of two different evidence values differs from
\* the hash of the two in the other order.
C5_OrderSensitive ==
    (ListCalled("Hash") /\ Len(evl) = 2 /\ ~SameContent(evl[1], evl[2])) =>
        listOut.res # EvidenceListHash(<<evl[2], evl[1]>>)

\* C6: Has returns a boolean, true if and only if some element of the list
\* is Equal to the argument.
C6_HasIffSomeEqual ==
    ListCalled("Has") =>
        /\ listOut.res \in {Bool(TRUE), Bool(FALSE)}
        /\ (listOut.res = Bool(TRUE)) <=>
              (\E i \in 1..Len(evl) : Equal(evl[i], listOut.arg) = Bool(TRUE))

\* C7: Equal of a DuplicateVoteEvidence is false on another variant, and on
\* a DuplicateVoteEvidence it is true if and only if the two hashes are
\* equal; two allocations with the same content hash alike and are Equal.
C7_EqualByHash ==
    (ListCalled("Equal") /\ IsDve(listOut.recv)) =>
        LET d == listOut.recv
            e == listOut.arg
        IN  /\ ~IsDve(e) => listOut.res = Bool(FALSE)
            /\ IsDve(e) => listOut.res = Bool(Hash(d) = Hash(e))
            /\ SameContent(d, e) =>
                  Hash(d) = Hash(e) /\ listOut.res = Bool(TRUE)

\* Two allocations with the same content were compared.
C7_Witness ==
    /\ ListCalled("Equal")
    /\ IsDve(listOut.recv) /\ IsDve(listOut.arg)
    /\ listOut.recv.ptr # listOut.arg.ptr
    /\ SameContent(listOut.recv, listOut.arg)
    /\ listOut.res = Bool(TRUE)

====
